---- MODULE Spec2Model ----
(***************************************************************************)
(* Chatterjee's xi correlation (crate xicor): a model of src/src/xicor.rs. *)
(* One call of an entry point (xicor, xicorf, xicor_norm, xicorf_norm) is  *)
(* run step by step: the length assertion, the two argsort/permute pairs,  *)
(* the two tie-aware rank counters, the scatter loop and the reduction.    *)
(* Indices are 0-based as in the source; a TLA+ sequence holds element i   *)
(* of a slice at position i+1 (see At).  The f64 values the code handles   *)
(* are small integers and quotients of them; they are kept as exact        *)
(* integers and as num/den pairs, with NaN and the infinities as classes.  *)
(***************************************************************************)
EXTENDS Integers, Sequences, FiniteSets

VARIABLES entry, x, y, pc, lim, idcs_x, y_ord, idcs, y_ascending,
          r_ascending, l_ascending, rs, ls, rsum, lsum, xi, prev

vars == <<entry, x, y, pc, lim, idcs_x, y_ord, idcs, y_ascending,
          r_ascending, l_ascending, rs, ls, rsum, lsum, xi, prev>>

\* ------------------------------------------------------------- bounds
\* Longest input of Spec and SpecOrder.
CallLen == 2
\* Longest input of SpecTies, and the largest element of an input with ties.
MaxLen == 3
MaxVal == 2
\* Longest input of SpecMono and SpecBound (x or y tie-free).
MonoLen == 4

\* ------------------------------------------------------------ helpers
\* A slice or vector that has not been computed yet (no vector of the code
\* holds a negative number).
Unset == <<-1>>
NoValue == [class |-> "none", num |-> 0, den |-> 1]
NoLim == [num |-> 0, den |-> 0]
NoPrev == [run |-> 0]

Entries == {"xicor", "xicorf", "xicor_norm", "xicorf_norm"}
NormEntries == {"xicor_norm", "xicorf_norm"}

Abs(a) == IF a < 0 THEN -a ELSE a

\* arr[i] of the source, i a 0-based index.
At(arr, i) == arr[i + 1]

SeqsUpTo(S, n) == UNION {[1..k -> S] : k \in 0..n}

RECURSIVE SumTo(_, _)
SumTo(f, k) == IF k = 0 THEN 0 ELSE f[k] + SumTo(f, k - 1)

\* The outcomes of every comparison the sort makes on arr: two slices with
\* the same Pattern are indistinguishable to a comparison sort.
Pattern(arr) ==
    [i \in 1..Len(arr) |-> Cardinality({arr[j] : j \in {k \in 1..Len(arr) : arr[k] < arr[i]}})]

\* ---------------------------------------------------- the std library
\* slice::sort_unstable_by_key on s, keys[k] being the key of s[k]: every
\* rearrangement of s that is in non-decreasing key order; the order of equal
\* keys is not specified.  Built front to back: any element of least key
\* comes first.
Remove(s, k) == [j \in 1..(Len(s) - 1) |-> IF j < k THEN s[j] ELSE s[j + 1]]

RECURSIVE SortUnstableByKey(_, _)
SortUnstableByKey(s, keys) ==
    IF Len(s) = 0 THEN {<< >>}
    ELSE UNION {{<<s[k]>> \o t : t \in SortUnstableByKey(Remove(s, k), Remove(keys, k))} :
                   k \in {i \in 1..Len(s) : \A j \in 1..Len(s) : keys[i] <= keys[j]}}

\* ---------------------------------------------------------- xicor.rs
\* (0..arr.len()).collect()
IdcsInit(arr) == [k \in 1..Len(arr) |-> k - 1]

argsort(arr) ==
    LET key(i) == At(arr, i)
    IN  SortUnstableByKey(IdcsInit(arr), [k \in 1..Len(arr) |-> key(IdcsInit(arr)[k])])

\* arr[i] panics when i is out of bounds.
permutePanics(arr, idcs_) == \E k \in 1..Len(idcs_) : idcs_[k] >= Len(arr)

\* Fault: permute that ignores idcs and copies arr in place order.
permuteInOrder(arr, idcs_) == [k \in 1..Len(idcs_) |-> arr[k]]

permute(arr, idcs_) == [k \in 1..Len(idcs_) |-> At(arr, idcs_[k])]

\* `0..arr.len()-1` on an empty slice: the subtraction overflows usize.  A
\* build with overflow checks panics there; a build without them wraps to
\* usize::MAX and the first index of the loop is out of bounds.
countPanics(arr) == Len(arr) = 0

\* Fault: cumulative_lte that gives a tie group the rank of its left boundary
\* (the rule of cumulative_gte applied to the <= count).
cumulative_lteLeft(arr) ==
    [k \in 1..Len(arr) |-> 1 + Cardinality({j \in 1..Len(arr) : arr[j] < arr[k]})]

\* Fault: cumulative_lte without the loop that aggregates ties.
cumulative_lteNoTies(arr) == [k \in 1..Len(arr) |-> k]

RECURSIVE lteLoop(_, _, _)
lteLoop(arr, counts, i) ==
    IF i < 0 THEN counts
    ELSE lteLoop(arr,
                 IF At(arr, i) = At(arr, i + 1)
                     THEN [counts EXCEPT ![i + 1] = At(counts, i + 1)]
                     ELSE counts,
                 i - 1)

cumulative_lte(arr) ==
    lteLoop(arr, [k \in 1..Len(arr) |-> k], Len(arr) - 2)

RECURSIVE gteLoop(_, _, _)
gteLoop(arr, counts, i) ==
    IF i >= Len(arr) - 1 THEN counts
    ELSE gteLoop(arr,
                 IF At(arr, i + 1) = At(arr, i)
                     THEN [counts EXCEPT ![i + 2] = At(counts, i)]
                     ELSE counts,
                 i + 1)

cumulative_gte(arr) ==
    gteLoop(arr, [k \in 1..Len(arr) |-> Len(arr) + 1 - k], 0)

\* Fault: a scatter loop that writes iteration k to position k, not to idcs[k].
scatterInOrder(acc, idcs_, vals, k) ==
    [j \in 1..Len(acc) |-> IF j <= Len(vals) THEN vals[j] ELSE acc[j]]

\* The scatter loop: for ((i, r), l) in idcs.zip(r_ascending).zip(l_ascending)
\* { rs[i] = r; ls[i] = l; }, iteration k of n applied to acc.
RECURSIVE scatter(_, _, _, _)
scatter(acc, idcs_, vals, k) ==
    IF k > Len(idcs_) \/ k > Len(vals) THEN acc
    ELSE scatter([acc EXCEPT ![idcs_[k] + 1] = vals[k]], idcs_, vals, k + 1)

Zeros(n) == [k \in 1..n |-> 0]

\* Fault: the window sum without .abs().
windowSumNoAbs(rs_) ==
    IF Len(rs_) < 2 THEN 0
    ELSE SumTo([k \in 1..(Len(rs_) - 1) |-> rs_[k] - rs_[k + 1]], Len(rs_) - 1)

\* rs.windows(2).map(|win| (win[0]-win[1]).abs()).sum()
windowSum(rs_) ==
    IF Len(rs_) < 2 THEN 0
    ELSE SumTo([k \in 1..(Len(rs_) - 1) |-> Abs(rs_[k] - rs_[k + 1])], Len(rs_) - 1)

\* ls.into_iter().map(|l| l*(n-l)).sum()
lSum(ls_, n_) == SumTo([k \in 1..Len(ls_) |-> ls_[k] * (n_ - ls_[k])], Len(ls_))

\* Fault: 1. - n*rsum/lsum, the factor 2 of the denominator left out.
xiValueNoHalf(n_, rsum_, lsum_) ==
    IF lsum_ = 0
        THEN IF n_ * rsum_ = 0
                 THEN [class |-> "nan", num |-> 0, den |-> 1]
                 ELSE [class |-> "-inf", num |-> 0, den |-> 1]
        ELSE [class |-> "fin", num |-> lsum_ - n_ * rsum_, den |-> lsum_]

\* 1. - n*rsum/(2.*lsum) in IEEE arithmetic on exact integers.
xiValue(n_, rsum_, lsum_) ==
    IF lsum_ = 0
        THEN IF n_ * rsum_ = 0
                 THEN [class |-> "nan", num |-> 0, den |-> 1]
                 ELSE [class |-> "-inf", num |-> 0, den |-> 1]
        ELSE [class |-> "fin", num |-> 2 * lsum_ - n_ * rsum_, den |-> 2 * lsum_]

\* Fault: (n-1.)/(n+1.) as the limit.
limValueOff(n_) == [num |-> n_ - 1, den |-> n_ + 1]

\* (n-2.)/(n+1.)
limValue(n_) == [num |-> n_ - 2, den |-> n_ + 1]

\* xicor(x, y)/lim
normValue(v, lim_) ==
    CASE v.class = "nan" -> v
      [] v.class = "-inf" ->
            IF lim_.num < 0 THEN [v EXCEPT !.class = "inf"] ELSE v
      [] v.class = "fin" /\ lim_.num = 0 ->
            IF v.num = 0 THEN [class |-> "nan", num |-> 0, den |-> 1]
            ELSE IF v.num > 0 THEN [class |-> "inf", num |-> 0, den |-> 1]
            ELSE [class |-> "-inf", num |-> 0, den |-> 1]
      [] v.class = "fin" /\ lim_.num > 0 ->
            [class |-> "fin", num |-> v.num * lim_.den, den |-> v.den * lim_.num]
      [] OTHER ->
            [class |-> "fin", num |-> -(v.num * lim_.den), den |-> -(v.den * lim_.num)]

\* ------------------------------------------------------------ the call
\* The sort is a deterministic comparison sort: a call on a slice with the
\* Pattern of an earlier call returns what the earlier call returned.
SortCalls ==
    (IF idcs_x = Unset THEN {} ELSE {<<Pattern(x), idcs_x>>})
    \cup (IF idcs = Unset THEN {} ELSE {<<Pattern(y_ord), idcs>>})
    \cup (IF prev.run = 0 THEN {}
          ELSE {<<Pattern(prev.x), prev.idcs_x>>, <<Pattern(prev.y_ord), prev.idcs>>})

SortAgrees(arr, p) == \A c \in SortCalls : c[1] = Pattern(arr) => c[2] = p

Values == 1..MaxVal

Fresh ==
    /\ pc = "call"
    /\ lim = NoLim
    /\ idcs_x = Unset /\ y_ord = Unset /\ idcs = Unset /\ y_ascending = Unset
    /\ r_ascending = Unset /\ l_ascending = Unset /\ rs = Unset /\ ls = Unset
    /\ rsum = 0 /\ lsum = 0
    /\ xi = NoValue

\* Tie-free sequences: the arrangements of 1..n.
Perms(n) == {p \in [1..n -> 1..n] : \A i \in 1..n : \A j \in 1..n : p[i] = p[j] => i = j}

\* Strictly increasing and strictly decreasing maps from D into R.
Increasing(D, R) == {h \in [D -> R] : \A a \in D : \A b \in D : a < b => h[a] < h[b]}
Decreasing(D, R) == {h \in [D -> R] : \A a \in D : \A b \in D : a < b => h[a] > h[b]}

Map(h, s) == [k \in 1..Len(s) |-> h[s[k]]]

\* Every entry point on every pair of short sequences, lengths equal or not.
Init ==
    /\ entry \in Entries
    /\ x \in SeqsUpTo(Values, CallLen)
    /\ y \in SeqsUpTo(Values, CallLen)
    /\ prev = NoPrev
    /\ Fresh

\* xicor_norm (and with it xicor) on every pair of sequences over Values.
InitTies ==
    /\ entry = "xicor_norm"
    /\ x \in SeqsUpTo(Values, MaxLen)
    /\ y \in SeqsUpTo(Values, MaxLen)
    /\ prev = NoPrev
    /\ Fresh

\* The strictly increasing maps of 1..n into 1..n+1 (each skips one value; the
\* identity skips n+1) and the strictly decreasing ones.
Skip(n, k) == [a \in 1..n |-> IF a < k THEN a ELSE a + 1]
Monotonic(n) ==
    {Skip(n, k) : k \in 1..(n + 1)}
    \cup {[a \in 1..n |-> n + 2 - Skip(n, k)[a]] : k \in 1..(n + 1)}

\* Tie-free x and y a strictly monotonic function of x (y = x included).
InitMono ==
    /\ entry \in Entries
    /\ \E n \in 0..MonoLen :
          /\ x \in Perms(n)
          /\ \E h \in Monotonic(n) : y = Map(h, x)
    /\ prev = NoPrev
    /\ Fresh

NonDecreasing(n, S) == {s \in [1..n -> S] : \A i \in 1..(n - 1) : s[i] <= s[i + 1]}

\* Longer inputs, ties in one sequence at a time: x = <<1, ..., n>> with any
\* y over Values, and any sorted x over Values with any tie-free y.
InitBound ==
    /\ entry = "xicor_norm"
    /\ \E n \in 0..MonoLen :
          \/ x = [k \in 1..n |-> k] /\ y \in [1..n -> Values]
          \/ x \in NonDecreasing(n, Values) /\ y \in Perms(n)
    /\ prev = NoPrev
    /\ Fresh

\* xicor_norm on every pair of short sequences, for the second call of Remap.
InitOrder ==
    /\ entry = "xicor_norm"
    /\ x \in SeqsUpTo(Values, CallLen)
    /\ y \in SeqsUpTo(Values, CallLen)
    /\ prev = NoPrev
    /\ Fresh

\* xicorf_norm / xicor_norm lines 24-29, 55-60: n and lim are computed, then
\* xicor(f) is called; xicorf lines 78-84 reinterprets the slices and calls
\* xicor.
Enter ==
    /\ pc = "call"
    /\ lim' = IF entry \in NormEntries THEN limValue(Len(x)) ELSE NoLim
    /\ pc' = "assert"
    /\ UNCHANGED <<entry, x, y, idcs_x, y_ord, idcs, y_ascending, r_ascending,
                   l_ascending, rs, ls, rsum, lsum, xi, prev>>

\* Fault: xicor without its assertion.
AssertLenSkipped ==
    /\ pc = "assert"
    /\ pc' = "sort_x"
    /\ UNCHANGED <<entry, x, y, lim, idcs_x, y_ord, idcs, y_ascending,
                   r_ascending, l_ascending, rs, ls, rsum, lsum, xi, prev>>

\* assert!(x.len() == y.len(), ...)
AssertLen ==
    /\ pc = "assert"
    /\ pc' = IF Len(x) = Len(y) THEN "sort_x" ELSE "panic"
    /\ UNCHANGED <<entry, x, y, lim, idcs_x, y_ord, idcs, y_ascending,
                   r_ascending, l_ascending, rs, ls, rsum, lsum, xi, prev>>

\* let idcs = argsort(x); let y_ord = permute(y, &idcs);
SortX ==
    /\ pc = "sort_x"
    /\ \E p \in argsort(x) :
          /\ SortAgrees(x, p)
          /\ idcs_x' = p
          /\ IF permutePanics(y, p)
                 THEN pc' = "panic" /\ y_ord' = y_ord
                 ELSE pc' = "sort_y" /\ y_ord' = permute(y, p)
    /\ UNCHANGED <<entry, x, y, lim, idcs, y_ascending, r_ascending,
                   l_ascending, rs, ls, rsum, lsum, xi, prev>>

\* let idcs = argsort(&y_ord); let y_ascending = permute(&y_ord, &idcs);
SortY ==
    /\ pc = "sort_y"
    /\ \E p \in argsort(y_ord) :
          /\ SortAgrees(y_ord, p)
          /\ idcs' = p
          /\ IF permutePanics(y_ord, p)
                 THEN pc' = "panic" /\ y_ascending' = y_ascending
                 ELSE pc' = "count_lte" /\ y_ascending' = permute(y_ord, p)
    /\ UNCHANGED <<entry, x, y, lim, idcs_x, y_ord, r_ascending,
                   l_ascending, rs, ls, rsum, lsum, xi, prev>>

\* let r_ascending = cumulative_lte(&y_ascending);
CountLte ==
    /\ pc = "count_lte"
    /\ IF countPanics(y_ascending)
           THEN pc' = "panic" /\ r_ascending' = r_ascending
           ELSE pc' = "count_gte" /\ r_ascending' = cumulative_lte(y_ascending)
    /\ UNCHANGED <<entry, x, y, lim, idcs_x, y_ord, idcs, y_ascending,
                   l_ascending, rs, ls, rsum, lsum, xi, prev>>

\* let l_ascending = cumulative_gte(&y_ascending);
CountGte ==
    /\ pc = "count_gte"
    /\ IF countPanics(y_ascending)
           THEN pc' = "panic" /\ l_ascending' = l_ascending
           ELSE pc' = "scatter" /\ l_ascending' = cumulative_gte(y_ascending)
    /\ UNCHANGED <<entry, x, y, lim, idcs_x, y_ord, idcs, y_ascending,
                   r_ascending, rs, ls, rsum, lsum, xi, prev>>

\* Fault: a scatter loop that stores the elements of y_ascending in rs, not
\* their ranks.
ScatterValues ==
    /\ pc = "scatter"
    /\ rs' = scatter(Zeros(Len(x)), idcs, y_ascending, 1)
    /\ ls' = scatter(Zeros(Len(x)), idcs, l_ascending, 1)
    /\ pc' = "reduce"
    /\ UNCHANGED <<entry, x, y, lim, idcs_x, y_ord, idcs, y_ascending,
                   r_ascending, l_ascending, rsum, lsum, xi, prev>>

\* rs = vec![0.; x.len()]; ls = vec![0.; x.len()]; the scatter loop.
Scatter ==
    /\ pc = "scatter"
    /\ rs' = scatter(Zeros(Len(x)), idcs, r_ascending, 1)
    /\ ls' = scatter(Zeros(Len(x)), idcs, l_ascending, 1)
    /\ pc' = "reduce"
    /\ UNCHANGED <<entry, x, y, lim, idcs_x, y_ord, idcs, y_ascending,
                   r_ascending, l_ascending, rsum, lsum, xi, prev>>

\* rsum, lsum and the value xicor returns.
Reduce ==
    /\ pc = "reduce"
    /\ rsum' = windowSum(rs)
    /\ lsum' = lSum(ls, Len(x))
    /\ xi' = xiValue(Len(x), rsum', lsum')
    /\ pc' = IF entry \in NormEntries THEN "norm" ELSE "done"
    /\ UNCHANGED <<entry, x, y, lim, idcs_x, y_ord, idcs, y_ascending,
                   r_ascending, l_ascending, rs, ls, prev>>

\* xicor(x, y)/lim in xicor_norm and xicorf_norm.
NormReturn ==
    /\ pc = "norm"
    /\ xi' = normValue(xi, lim)
    /\ pc' = "done"
    /\ UNCHANGED <<entry, x, y, lim, idcs_x, y_ord, idcs, y_ascending,
                   r_ascending, l_ascending, rs, ls, rsum, lsum, prev>>

Next ==
    \/ Enter
    \/ AssertLen
    \/ SortX
    \/ SortY
    \/ CountLte
    \/ CountGte
    \/ Scatter
    \/ Reduce
    \/ NormReturn

\* A second call, on f(x) and g(y) for strictly increasing f and g, after the
\* first has returned; the first call's sorts and sums are remembered.
Remap ==
    /\ pc = "done"
    /\ prev.run = 0
    /\ \E f \in Increasing(Values, 1..(MaxVal + 1)) :
       \E g \in Increasing(Values, 1..(MaxVal + 1)) :
          /\ x' = Map(f, x)
          /\ y' = Map(g, y)
    /\ prev' = [run |-> 1, x |-> x, y |-> y, idcs_x |-> idcs_x, y_ord |-> y_ord,
                idcs |-> idcs, rsum |-> rsum, lsum |-> lsum, xi |-> xi]
    /\ pc' = "call"
    /\ lim' = NoLim
    /\ idcs_x' = Unset /\ y_ord' = Unset /\ idcs' = Unset /\ y_ascending' = Unset
    /\ r_ascending' = Unset /\ l_ascending' = Unset /\ rs' = Unset /\ ls' = Unset
    /\ rsum' = 0 /\ lsum' = 0
    /\ xi' = NoValue
    /\ UNCHANGED entry

NextOrder == Next \/ Remap

Spec == Init /\ [][Next]_vars
SpecTies == InitTies /\ [][Next]_vars
SpecMono == InitMono /\ [][Next]_vars
SpecBound == InitBound /\ [][Next]_vars
SpecOrder == InitOrder /\ [][NextOrder]_vars

\* ============================================================ properties
n == Len(x)

\* xicor has returned its value (to the caller, or to xicor_norm).
Returned == pc \in {"norm", "done"}

TieFree(s) == \A i \in 1..Len(s) : \A j \in 1..Len(s) : s[i] = s[j] => i = j

Sorted(s) == \A i \in 1..Len(s) : \A j \in i..Len(s) : s[i] <= s[j]

\* idcs_ holds every index of 0..m-1 exactly once.
Bijection(idcs_, m) ==
    /\ Len(idcs_) = m
    /\ \A i \in 0..(m - 1) : Cardinality({k \in 1..m : idcs_[k] = i}) = 1

NothingComputed ==
    /\ idcs_x = Unset /\ y_ord = Unset /\ idcs = Unset /\ y_ascending = Unset
    /\ r_ascending = Unset /\ l_ascending = Unset /\ rs = Unset /\ ls = Unset
    /\ rsum = 0 /\ lsum = 0 /\ xi = NoValue

\* C1: when len(x) != len(y), each of the four entry points aborts at the
\* assertion: the call is at its entry, at the assertion or aborted, no
\* argsort, permute or rank count has been computed, no value is returned.
C1_MismatchAborts ==
    Len(x) # Len(y) => pc \in {"call", "assert", "panic"} /\ NothingComputed

\* C1 witness: xicorf_norm has aborted on sequences of different lengths.
C1_Witness ==
    /\ entry = "xicorf_norm" /\ pc = "panic"
    /\ Len(x) = 2 /\ Len(y) = 1

\* C5 as claimed: on sequences of equal length (n = 0 included) the call never
\* aborts.
C5_EqualLengthNeverAborts == Len(x) = Len(y) => pc # "panic"

TieGroup(arr, i, j) ==
    /\ 0 <= i /\ i <= j /\ j < Len(arr)
    /\ \A k \in i..j : At(arr, k) = At(arr, i)
    /\ i = 0 \/ At(arr, i - 1) # At(arr, i)
    /\ j = Len(arr) - 1 \/ At(arr, j + 1) # At(arr, j)

\* C8: where both counters have returned: on the sorted non-empty
\* y_ascending, cumulative_lte is j+1 and
\* cumulative_gte is n-i on every maximal tie group [i, j]; the k-th outputs
\* count the elements <= arr[k] and >= arr[k].
C8_TieAwareCounters ==
    pc = "scatter" =>
        LET arr == y_ascending
            m == Len(arr)
        IN  /\ m >= 1 /\ Sorted(arr)
            /\ Len(r_ascending) = m /\ Len(l_ascending) = m
            /\ \A i \in 0..(m - 1) : \A j \in i..(m - 1) :
                  TieGroup(arr, i, j) =>
                      \A k \in i..j : /\ At(r_ascending, k) = j + 1
                                      /\ At(l_ascending, k) = m - i
            /\ \A k \in 1..m :
                  /\ r_ascending[k] = Cardinality({j \in 1..m : arr[j] <= arr[k]})
                  /\ l_ascending[k] = Cardinality({j \in 1..m : arr[j] >= arr[k]})

\* C8 witness: both counters have run on a slice with a tie group of two
\* elements that is followed by a larger element.
C8_Witness ==
    /\ pc = "done" /\ Len(y_ascending) = 3
    /\ TieGroup(y_ascending, 0, 1)
    /\ TieGroup(y_ascending, 2, 2)

\* C10: after the scatter loop rs[i] and ls[i] count the elements of y_ord
\* that are <= and >= y_ord[i]; every position is written exactly once, so
\* every entry lies in 1..n.
C10_RankAlignment ==
    pc = "reduce" =>
        /\ n >= 1 /\ Len(rs) = n /\ Len(ls) = n
        /\ \A i \in 0..(n - 1) : Cardinality({k \in 1..Len(idcs) : idcs[k] = i}) = 1
        /\ \A i \in 1..n :
              /\ rs[i] = Cardinality({j \in 1..n : y_ord[j] <= y_ord[i]})
              /\ ls[i] = Cardinality({j \in 1..n : y_ord[j] >= y_ord[i]})
              /\ rs[i] \in 1..n /\ ls[i] \in 1..n

\* C10 witness: the scatter loop has undone a second sort that moved elements,
\* on a y_ord with a tie.
C10_Witness ==
    /\ pc = "done" /\ n = 3
    /\ idcs # IdcsInit(y_ord) /\ ~TieFree(y_ord)
    /\ rs # r_ascending /\ ls # l_ascending

\* rsum and lsum of xicor lines 103-125 when the first argsort returns q1 and
\* the second q2.
xicorSums(x_, y_, q1, q2) ==
    LET yo == permute(y_, q1)
        ya == permute(yo, q2)
        rs_ == scatter(Zeros(Len(x_)), q2, cumulative_lte(ya), 1)
        ls_ == scatter(Zeros(Len(x_)), q2, cumulative_gte(ya), 1)
    IN  [rsum |-> windowSum(rs_), lsum |-> lSum(ls_, Len(x_))]

\* C7 as claimed: whatever ascending order the first and the second argsort
\* choose among equal elements, rsum and lsum are those of this call.
C7_TieInsensitive ==
    Returned =>
        \A q1 \in argsort(x) : \A q2 \in argsort(permute(y, q1)) :
            xicorSums(x, y, q1, q2) = [rsum |-> rsum, lsum |-> lsum]

\* C7 amended: whatever order q2 the second argsort chooses among equal
\* elements of y_ord, the sorted slice, the scattered ranks' sums rsum and lsum
\* are those of this call; lsum is a function of y alone, so it does not
\* depend on the first argsort either; and when x is tie-free the first
\* argsort has one possible result, so nothing depends on it.
C7_SecondSortInsensitive ==
    pc = "done" =>
        /\ \A q2 \in argsort(y_ord) :
              /\ permute(y_ord, q2) = y_ascending
              /\ windowSum(scatter(Zeros(n), q2, r_ascending, 1)) = rsum
              /\ lSum(scatter(Zeros(n), q2, l_ascending, 1), n) = lsum
        /\ lsum = lSum([i \in 1..n |-> Cardinality({j \in 1..n : y[j] >= y[i]})], n)
        /\ TieFree(x) => argsort(x) = {idcs_x}

\* C7 witness: a call has returned whose x has ties and whose y_ord has ties,
\* so that both sorts had a choice.
C7_Witness ==
    /\ pc = "done" /\ n = 3
    /\ Cardinality(argsort(x)) > 1
    /\ Cardinality(argsort(y_ord)) > 1
    /\ rsum > 0

\* C2: for n > 2, tie-free x and y strictly monotonic in x,
\* 1 - n*rsum/(2*lsum) = (n-2)/(n+1) over the integers, and xicor_norm and
\* xicorf_norm return exactly 1.
C2_NormalizationCeiling ==
    (n > 2 /\ Returned) =>
        /\ lsum > 0
        /\ (n + 1) * (2 * lsum - n * rsum) = (n - 2) * 2 * lsum
        /\ pc = "done" /\ entry \in NormEntries =>
              xi.class = "fin" /\ xi.den > 0 /\ xi.num = xi.den
        /\ pc = "done" /\ entry \notin NormEntries =>
              xi.class = "fin" /\ xi.den > 0 /\ xi.num * (n + 1) = xi.den * (n - 2)

\* C2 witness: xicor_norm has returned on an unsorted tie-free x of length 4
\* with y strictly decreasing in x.
C2_Witness ==
    /\ pc = "done" /\ entry = "xicor_norm" /\ n = 4
    /\ ~Sorted(x)
    /\ \A i \in 1..n : \A j \in 1..n : x[i] < x[j] => y[i] > y[j]

\* C4 as claimed: for n > 3 and tie-free x, xicor(x, x) = (n-3)/(n+1).
C4_SelfThreeOverN ==
    (n > 3 /\ y = x /\ Returned) =>
        (n + 1) * (2 * lsum - n * rsum) = (n - 3) * 2 * lsum

\* C4 amended: for n > 3 and tie-free x, xicor(x, x) = (n-2)/(n+1).
C4_SelfTwoOverN ==
    (n > 3 /\ y = x /\ Returned) =>
        /\ lsum > 0
        /\ (n + 1) * (2 * lsum - n * rsum) = (n - 2) * 2 * lsum
        /\ pc = "done" /\ entry = "xicor" =>
              xi.class = "fin" /\ xi.num * (n + 1) = xi.den * (n - 2)

\* C4 witness: xicor(x, x) has returned for an unsorted tie-free x of length 4.
C4_Witness ==
    /\ pc = "done" /\ entry = "xicor" /\ n = 4
    /\ y = x /\ ~Sorted(x)

====
